---- MODULE Spec2Model ----
(***************************************************************************)
(* A model of the ReActor kernel (src/src/lib.rs): the Actor / Event /     *)
(* Effect data model and the run-to-completion scheduler Config with its   *)
(* two operations, boot and dispatch.                                      *)
(*                                                                         *)
(* Actors are identified by the order of their allocation (Actor::new);    *)
(* heap[a] is the content of the behavior cell of actor a.  A reaction is  *)
(* the call of Behavior::react made by Actor::dispatch.  The idioms of the *)
(* crate and the behaviours of its tests are modelled by what their react  *)
(* does; the behaviour "Client" stands for an arbitrary implementation of  *)
(* the Behavior trait: its reaction is any sequence of at most MaxOps      *)
(* calls of Effect::create / send / update / throw.                        *)
(*                                                                         *)
(* The variables marked "history" record what happened and influence no    *)
(* step of the scheduler; the properties are stated in terms of them.      *)
(***************************************************************************)
EXTENDS Integers, Sequences, FiniteSets

\* ---------------------------------------------------------------- bounds
\* boot and the create of a "Client" reaction allocate an actor only while
\* fewer than MaxActors actors were allocated
MaxActors == 2
\* a "Client" reaction sends only while fewer than MaxSends events were constructed
MaxSends == 4
\* Effect calls made by one "Client" reaction
MaxOps == 2
\* largest limit the caller passes to dispatch
MaxLimit == 2

\* ---------------------------------------------------------------- values
Range(s) == {s[i] : i \in 1..Len(s)}

\* Option<T>: None is the empty sequence, Some(x) is <<x>>.
None == <<>>
Some(x) == <<x>>

\* Message (the variants the behaviours of the crate construct or inspect)
Empty == [tag |-> "Empty"]
Str(s) == [tag |-> "Str", str |-> s]
Addr(a) == [tag |-> "Addr", addr |-> a]
Pair(l, r) == [tag |-> "Pair", fst |-> l, snd |-> r]

\* Behavior implementations
Sink == [kind |-> "Sink"]
Forward(s) == [kind |-> "Forward", subject |-> s]
Label(c, l) == [kind |-> "Label", cust |-> c, label |-> l]
Tag(c) == [kind |-> "Tag", cust |-> c]
Once(c) == [kind |-> "Once", cust |-> c]
Maker == [kind |-> "Maker"]
MockCust == [kind |-> "MockCust"]
BootSink == [kind |-> "BootSink"]
BootOnce == [kind |-> "BootOnce"]
BootForward(m) == [kind |-> "BootForward", message |-> m]
BootLabel(m) == [kind |-> "BootLabel", message |-> m]
BootTag(m) == [kind |-> "BootTag", message |-> m]
Client == [kind |-> "Client"]

\* Event; stamp is a history field: the number of Event::new calls made up
\* to and including the one that built this event.
Event(t, m, n) == [target |-> t, message |-> m, stamp |-> n]
NoEvent == [target |-> 0, message |-> Empty, stamp |-> 0]

\* Effect::new
EffectNew == [actors |-> <<>>, events |-> <<>>, state |-> None, error |-> None]

\* Effect::create, given the actor Actor::new returned
EffectCreate(eff, a) == [eff EXCEPT !.actors = Append(@, a)]

\* Effect::send
EffectSend(eff, t, m, n) == [eff EXCEPT !.events = Append(@, Event(t, m, n))]

\* a faulty update: a replacement already staged is kept
EffectUpdateOnce(eff, b) == IF eff.state = None THEN [eff EXCEPT !.state = Some(b)] ELSE eff

\* Effect::update
EffectUpdate(eff, b) == [eff EXCEPT !.state = Some(b)]

\* Effect::throw
EffectThrow(eff, r) == [eff EXCEPT !.error = Some(r)]

VARIABLES
    actors,     \* Config.actors, the registry
    events,     \* Config.events, the queue
    heap,       \* heap[a]: the behavior cell of actor a (a sequence: ids are 1..Len(heap))
    pc,         \* position of the caller / of Config::dispatch
    limit,      \* dispatch's local `limit`
    event,      \* dispatch's local `event` (NoEvent outside a cycle)
    effect,     \* the Effect of the reaction in progress
    ops,        \* Effect calls made so far by the "Client" reaction in progress
    ret,        \* value returned by the last boot / dispatch call
    clock,      \* history: number of Event::new calls so far
    call,       \* history: the boot / dispatch call in progress (or the last one)
    pre,        \* history: registry, queue and target behaviour when `event` was popped
    last,       \* history: the event and the Effect of the reaction handled last
    served,     \* history: the stamps of the events popped so far
    fate,       \* history: fate[a] tells how actor a came to be and what became of it
    life,       \* history: life[a] holds the behaviour actor a was made with (born) and the
                \* one it was given last (given)
    hist        \* history recorded by MarkedSpec only:
                \*   hist.heirs: the replacements committed while an event was waiting for its
                \*               target
                \*   hist.popped[a]: the number of events popped so far for actor a
                \*   hist.updates: the behaviours passed to Effect::update, in call order, by
                \*                 the "Client" reaction in progress

vars == <<actors, events, heap, pc, limit, event, effect, ops, ret, clock, call, pre, last, served, fate,
         life, hist>>

target == event.target

NoCall == [op |-> "none", limit |-> 0, behavior |-> Sink, root |-> 0, stamp |-> 0,
           actors |-> <<>>, events |-> <<>>, heap |-> <<>>, ran |-> 0, failed |-> 0, sent |-> 0]
Freed == [kind |-> "Freed"]      \* the cell of an actor that was dropped
NoPre == [actors |-> <<>>, events |-> <<>>, behavior |-> Sink, heap |-> <<>>, heirs |-> {},
          popped |-> 0]
NoLast == [event |-> NoEvent, effect |-> EffectNew]
NoHist == [heirs |-> {}, popped |-> <<>>, updates |-> <<>>]

\* history: an actor made with behaviour b (Actor::new)
Born(b) == [born |-> b, given |-> b]

\* history: the replacement a committed effect gives actor t, if it stages one
Replaced(lv, t, eff) ==
    IF eff.state # None THEN [lv EXCEPT ![t].given = eff.state[1]] ELSE lv

\* history: when an effect that replaces the behaviour of actor t is committed,
\* every event for t then in the queue q is marked with the replacement; self
\* tells whether the effect itself sent the event
Marks(q, t, b, self) ==
    {[stamp |-> q[i].stamp, behavior |-> b, self |-> self] :
        i \in {j \in 1..Len(q) : q[j].target = t}}

Inherited(hs, q, t, eff) ==
    IF eff.state # None
    THEN hs \cup Marks(q, t, eff.state[1], FALSE) \cup Marks(eff.events, t, eff.state[1], TRUE)
    ELSE hs

\* Config::new
Init ==
    /\ actors = <<>>
    /\ events = <<>>
    /\ heap = <<>>
    /\ pc = "idle"
    /\ limit = 0
    /\ event = NoEvent
    /\ effect = EffectNew
    /\ ops = 0
    /\ ret = 0
    /\ clock = 0
    /\ call = NoCall
    /\ pre = NoPre
    /\ last = NoLast
    /\ served = {}
    /\ fate = <<>>
    /\ life = <<>>
    /\ hist = NoHist

\* behaviours the caller boots with
BootBehaviors == {Client, BootSink}

\* messages the roots of the idiom scenarios send
Messages == {Empty, Str("World"), Str("It's Me!"), Addr(1)}

\* behaviours the caller boots a new Config with: the above and the roots of
\* the idiom scenarios
FirstBootBehaviors ==
    BootBehaviors \cup {BootOnce} \cup {BootForward(m) : m \in Messages}
        \cup {BootLabel(m) : m \in Messages} \cup {BootTag(m) : m \in Messages}

\* a faulty boot: it lets dispatch run two cycles
BootLimitTwo == 1 + 1

\* the limit boot passes to dispatch
BootLimit == 1

\* Config::boot up to its call of dispatch(1)
Boot(b) ==
    /\ pc = "idle"
    /\ Len(heap) < MaxActors
    /\ heap' = Append(heap, b)
    /\ actors' = Append(actors, Len(heap) + 1)
    /\ events' = Append(events, Event(Len(heap) + 1, Empty, clock + 1))
    /\ clock' = clock + 1
    /\ limit' = BootLimit
    /\ pc' = "loop"
    /\ call' = [op |-> "boot", limit |-> BootLimit, behavior |-> b, root |-> Len(heap) + 1,
                stamp |-> clock + 1, actors |-> actors, events |-> events, heap |-> heap,
                ran |-> 0, failed |-> 0, sent |-> 0]
    /\ last' = NoLast
    /\ fate' = Append(fate, "root")
    /\ life' = Append(life, Born(b))
    /\ UNCHANGED <<event, effect, ops, ret, pre, served, hist>>

\* the limit of the dispatch call of the test forward_proxies_all_messages
ForwardTestLimit == 3

\* the limits the caller passes to dispatch: any up to MaxLimit, and the test's
\* in the scenario of the test
Limits ==
    (0..MaxLimit) \cup
        IF heap # <<>> /\ heap[1].kind = "BootForward" THEN {ForwardTestLimit} ELSE {}

\* the caller calls Config::dispatch(l)
Dispatch(l) ==
    /\ pc = "idle"
    /\ limit' = l
    /\ pc' = "loop"
    /\ call' = [op |-> "dispatch", limit |-> l, behavior |-> Sink, root |-> 0, stamp |-> 0,
                actors |-> actors, events |-> events, heap |-> heap,
                ran |-> 0, failed |-> 0, sent |-> 0]
    /\ last' = NoLast
    /\ UNCHANGED <<actors, events, heap, event, effect, ops, ret, clock, pre, served, fate,
                   life, hist>>

\* a faulty loop condition: the limit is ignored
ContinueWhileQueued(l, q) == q # <<>>

\* a faulty loop condition: off by one on the limit
ContinueAtZero(l, q) == l >= 0 /\ q # <<>>

\* the loop condition: `while limit > 0` and `if let Some(event) = self.events.pop_front()`
Continue(l, q) == l > 0 /\ q # <<>>

\* history: the number of events popped so far for actor a
Count(f, a) == IF a \in DOMAIN f THEN f[a] ELSE 0

\* one more turn of the loop: the front event is popped, its target is
\* resolved and target.dispatch(event) is entered
Popped ==
    /\ pc = "loop"
    /\ Continue(limit, events)
    /\ event' = Head(events)
    /\ events' = Tail(events)
    /\ effect' = EffectNew
    /\ ops' = 0
    /\ pc' = "react"
    /\ pre' = [actors |-> actors, events |-> events, behavior |-> heap[Head(events).target],
               heap |-> heap,
               heirs |-> {m \in hist.heirs : m.stamp = Head(events).stamp},
               popped |-> Count(hist.popped, Head(events).target)]
    /\ last' = NoLast
    /\ served' = served \cup {Head(events).stamp}
    /\ UNCHANGED <<actors, heap, limit, ret, clock, call, fate, life>>

\* the start of a cycle of the loop
LoopPop == Popped /\ UNCHANGED hist

\* the start of a cycle of the loop, with the history recorded
LoopPopMarked ==
    /\ Popped
    /\ hist' = [heirs |-> {m \in hist.heirs : m.stamp # Head(events).stamp},
                popped |-> [a \in 1..Len(heap) |->
                                Count(hist.popped, a) + IF a = Head(events).target THEN 1 ELSE 0],
                updates |-> <<>>]

\* the loop ends (limit exhausted, or `break` on an empty queue) and
\* dispatch returns self.events.len()
LoopExit ==
    /\ pc = "loop"
    /\ ~Continue(limit, events)
    /\ ret' = Len(events)
    /\ pc' = "idle"
    /\ UNCHANGED <<actors, events, heap, limit, event, effect, ops, clock, call, pre, last,
                   served, fate, life, hist>>

\* ------------------------------------------------------------ reactions
\* a faulty Sink: it sends the message back to itself
SinkEchoes(ev, clk) == EffectSend(EffectNew, ev.target, ev.message, clk + 1)

\* idiom::Sink::react
SinkReact(ev, clk) == EffectNew

\* a faulty Forward: the message is replaced by Empty
ForwardBlank(b, ev, clk) == EffectSend(EffectNew, b.subject, Empty, clk + 1)

\* idiom::Forward::react
ForwardReact(b, ev, clk) == EffectSend(EffectNew, b.subject, ev.message, clk + 1)

\* a faulty Label: the pair is built the other way round
LabelSwapped(b, ev, clk) == EffectSend(EffectNew, b.cust, Pair(ev.message, b.label), clk + 1)

\* idiom::Label::react
LabelReact(b, ev, clk) == EffectSend(EffectNew, b.cust, Pair(b.label, ev.message), clk + 1)

\* a faulty Tag: the address is the customer's
TagOfCust(b, ev, clk) ==
    EffectSend(EffectNew, b.cust, Pair(Addr(b.cust), ev.message), clk + 1)

\* idiom::Tag::react
TagReact(b, ev, clk) ==
    EffectSend(EffectNew, b.cust, Pair(Addr(ev.target), ev.message), clk + 1)

\* a faulty Once: it does not replace itself
OnceForever(b, ev, clk) == EffectSend(EffectNew, b.cust, ev.message, clk + 1)

\* tests::Once::react
OnceReact(b, ev, clk) == EffectUpdate(EffectSend(EffectNew, b.cust, ev.message, clk + 1), Sink)

\* react of the idioms and of the behaviours of the tests, as a function of the
\* behaviour, the event, the next free actor id and the current clock.
\* The result is the Effect together with the cells of the actors created.
Reaction(b, ev, free, clk) ==
    CASE b.kind = "Sink" -> [effect |-> SinkReact(ev, clk), made |-> <<>>]
      [] b.kind = "Forward" -> [effect |-> ForwardReact(b, ev, clk), made |-> <<>>]
      [] b.kind = "Label" -> [effect |-> LabelReact(b, ev, clk), made |-> <<>>]
      [] b.kind = "Tag" -> [effect |-> TagReact(b, ev, clk), made |-> <<>>]
      [] b.kind = "Once" -> [effect |-> OnceReact(b, ev, clk), made |-> <<>>]
      [] b.kind = "Maker" ->
            IF ev.message.tag = "Addr"
            THEN [effect |-> EffectSend(EffectCreate(EffectNew, free), ev.message.addr,
                                        Addr(free), clk + 1),
                  made |-> <<Sink>>]
            ELSE [effect |-> EffectThrow(EffectNew, "unknown message"), made |-> <<>>]
      [] b.kind = "MockCust" ->
            [effect |-> EffectNew, made |-> <<>>]
      [] b.kind = "BootSink" ->
            [effect |-> EffectSend(EffectSend(EffectCreate(EffectNew, free), free, Empty, clk + 1),
                                   free, Empty, clk + 2),
             made |-> <<Sink>>]
      [] b.kind = "BootOnce" ->
            LET sink == free
                once == free + 1
                e0 == EffectCreate(EffectCreate(EffectNew, sink), once)
                e1 == EffectSend(e0, once, Str("first"), clk + 1)
                e2 == EffectSend(e1, once, Str("second"), clk + 2)
            IN  [effect |-> EffectSend(e2, once, Str("third"), clk + 3),
                 made |-> <<Sink, Once(sink)>>]
      [] b.kind = "BootForward" ->
            LET sink == free
                forward == free + 1
                e0 == EffectCreate(EffectCreate(EffectNew, sink), forward)
                e1 == EffectSend(e0, forward, b.message, clk + 1)
                e2 == EffectSend(e1, forward, Empty, clk + 2)
            IN  [effect |-> EffectSend(e2, sink, Empty, clk + 3),
                 made |-> <<Sink, Forward(sink)>>]
      [] b.kind = "BootLabel" ->
            LET cust == free
                label == free + 1
                e0 == EffectCreate(EffectCreate(EffectNew, cust), label)
            IN  [effect |-> EffectSend(e0, label, b.message, clk + 1),
                 made |-> <<MockCust, Label(cust, Str("Hello"))>>]
      [] b.kind = "BootTag" ->
            LET cust == free
                tag == free + 1
                e0 == EffectCreate(EffectCreate(EffectNew, cust), tag)
            IN  [effect |-> EffectSend(e0, tag, b.message, clk + 1),
                 made |-> <<MockCust, Tag(cust)>>]

\* Actor::dispatch for a target whose behaviour is one of the above
React ==
    /\ pc = "react"
    /\ heap[target].kind # "Client"
    /\ LET r == Reaction(heap[target], event, Len(heap) + 1, clock) IN
        /\ effect' = r.effect
        /\ heap' = heap \o r.made
        /\ fate' = fate \o [i \in 1..Len(r.made) |-> "staged"]
        /\ life' = life \o [i \in 1..Len(r.made) |-> Born(r.made[i])]
        /\ clock' = clock + Len(r.effect.events)
    /\ pc' = "commit"
    /\ UNCHANGED <<actors, events, limit, event, ops, ret, call, pre, last, served, hist>>

\* actors the reaction in progress holds a reference to: a behaviour without
\* fields, reacting to a message without addresses, has event.target and the
\* actors its own create calls returned
Known == {target} \cup Range(effect.actors)

\* what an arbitrary reaction passes to create, send and update
CreateBehaviors == {Sink, Client}
SendMessages == {Empty}
UpdateBehaviors == {Sink, Client}

InClient == pc = "react" /\ heap[target].kind = "Client"

\* an arbitrary reaction calls effect.create(b)
ClientCreate(b) ==
    /\ InClient
    /\ ops < MaxOps
    /\ Len(heap) < MaxActors
    /\ heap' = Append(heap, b)
    /\ fate' = Append(fate, "staged")
    /\ life' = Append(life, Born(b))
    /\ effect' = EffectCreate(effect, Len(heap) + 1)
    /\ ops' = ops + 1
    /\ UNCHANGED <<actors, events, pc, limit, event, ret, clock, call, pre, last, served,
                   hist>>

\* a faulty send: the event goes straight into the queue
ClientSendUnstaged(t, m) ==
    /\ InClient
    /\ ops < MaxOps
    /\ clock < MaxSends
    /\ events' = Append(events, Event(t, m, clock + 1))
    /\ clock' = clock + 1
    /\ ops' = ops + 1
    /\ UNCHANGED <<actors, effect, heap, pc, limit, event, ret, call, pre, last, served, fate,
                   life, hist>>

\* an arbitrary reaction calls effect.send(t, m)
ClientSend(t, m) ==
    /\ InClient
    /\ ops < MaxOps
    /\ clock < MaxSends
    /\ effect' = EffectSend(effect, t, m, clock + 1)
    /\ clock' = clock + 1
    /\ ops' = ops + 1
    /\ UNCHANGED <<actors, events, heap, pc, limit, event, ret, call, pre, last, served, fate,
                   life, hist>>

\* an arbitrary reaction calls effect.update(b)
Updating(b) ==
    /\ InClient
    /\ ops < MaxOps
    /\ effect' = EffectUpdate(effect, b)
    /\ ops' = ops + 1
    /\ UNCHANGED <<actors, events, heap, pc, limit, event, ret, clock, call, pre, last, served,
                   fate, life>>

ClientUpdate(b) == Updating(b) /\ UNCHANGED hist

\* the same, with the history recorded
ClientUpdateMarked(b) == Updating(b) /\ hist' = [hist EXCEPT !.updates = Append(@, b)]

\* an arbitrary reaction calls effect.throw(reason)
ClientThrow ==
    /\ InClient
    /\ ops < MaxOps
    /\ effect' = EffectThrow(effect, "failed")
    /\ ops' = ops + 1
    /\ UNCHANGED <<actors, events, heap, pc, limit, event, ret, clock, call, pre, last, served,
                   fate, life, hist>>

\* an arbitrary reaction returns its effect
ClientReturn ==
    /\ InClient
    /\ pc' = "commit"
    /\ UNCHANGED <<actors, events, heap, limit, event, effect, ops, ret, clock, call, pre, last,
                   served, fate, life, hist>>

\* --------------------------------------------------------------- commit
\* a faulty match: the failure arm is never taken
FailedNever(eff) == FALSE

\* `match effect.error`: Some(reason) is the failure arm
Failed(eff) == eff.error # None

\* a faulty commit: the staged behaviour is not installed
InstalledNever(h, t, eff) == h

\* a faulty commit: the replacement is not installed when the effect sends to
\* its own actor
InstalledUnlessSelfSent(h, t, eff) ==
    IF eff.state # None /\ \A i \in 1..Len(eff.events) : eff.events[i].target # t
    THEN [h EXCEPT ![t] = eff.state[1]]
    ELSE h

\* a faulty commit: the replacement is given to the first actor made instead
\* of the target
InstalledOnFirst(h, t, eff) == IF eff.state # None THEN [h EXCEPT ![1] = eff.state[1]] ELSE h

\* a faulty update: the replacement becomes a new actor, the target's cell is
\* left alone
InstalledAsNewActor(h, t, eff) == IF eff.state # None THEN Append(h, eff.state[1]) ELSE h

\* if let Some(behavior) = effect.state.take() { target.update(behavior) }
\* (Actor::update stores the behaviour in the target's cell)
Installed(h, t, eff) == IF eff.state # None THEN [h EXCEPT ![t] = eff.state[1]] ELSE h

\* a faulty commit: the staged actors are put in front of the registry
RegisteredInFront(reg, eff) == eff.actors \o reg

\* self.actors.append(&mut effect.actors)
Registered(reg, eff) == reg \o eff.actors

\* a faulty commit: the staged events are put in front of the queue
EnqueuedInFront(q, eff) == eff.events \o q

\* a faulty commit: the staged events take the place of the waiting ones
EnqueuedOverWaiting(q, eff) == IF eff.events # <<>> THEN eff.events ELSE q

\* self.events.append(&mut effect.events)
Enqueued(q, eff) == q \o eff.events

\* the Effect goes out of scope: actors it still holds are dropped
Dropped(h, eff) == [a \in 1..Len(h) |-> IF a \in Range(eff.actors) THEN Freed ELSE h[a]]

\* a faulty loop: each reaction costs two units of the limit
DecrementedByTwo(l) == l - 2

\* the value of `limit` after `limit -= 1`
Decremented(l) == l - 1

\* a faulty failure arm: the event of a failed reaction is queued again
CommitRetrying ==
    /\ pc = "commit"
    /\ IF ~Failed(effect)
       THEN /\ heap' = Installed(heap, target, effect)
            /\ actors' = Registered(actors, effect)
            /\ events' = Enqueued(events, effect)
            /\ call' = [call EXCEPT !.ran = @ + 1, !.sent = @ + Len(effect.events)]
            /\ fate' = [a \in 1..Len(fate) |->
                            IF a \in Range(effect.actors) THEN "committed" ELSE fate[a]]
            /\ life' = Replaced(life, target, effect)
       ELSE /\ heap' = Dropped(heap, effect)
            /\ actors' = actors
            /\ events' = Append(events, event)
            /\ call' = [call EXCEPT !.ran = @ + 1, !.failed = @ + 1]
            /\ fate' = [a \in 1..Len(fate) |->
                            IF a \in Range(effect.actors) THEN "discarded" ELSE fate[a]]
            /\ UNCHANGED life
    /\ last' = [event |-> event, effect |-> effect]
    /\ effect' = EffectNew
    /\ event' = NoEvent
    /\ ops' = 0
    /\ limit' = Decremented(limit)
    /\ pc' = "loop"
    /\ UNCHANGED <<ret, clock, pre, served, hist>>

\* the match on effect.error and the end of the loop body
Committed ==
    /\ pc = "commit"
    /\ IF ~Failed(effect)
       THEN /\ heap' = Installed(heap, target, effect)
            /\ actors' = Registered(actors, effect)
            /\ events' = Enqueued(events, effect)
            /\ call' = [call EXCEPT !.ran = @ + 1, !.sent = @ + Len(effect.events)]
            /\ fate' = [a \in 1..Len(fate) |->
                            IF a \in Range(effect.actors) THEN "committed" ELSE fate[a]]
            /\ life' = Replaced(life, target, effect)
       ELSE /\ heap' = Dropped(heap, effect)
            /\ UNCHANGED <<actors, events>>
            /\ call' = [call EXCEPT !.ran = @ + 1, !.failed = @ + 1]
            /\ fate' = [a \in 1..Len(fate) |->
                            IF a \in Range(effect.actors) THEN "discarded" ELSE fate[a]]
            /\ UNCHANGED life
    /\ last' = [event |-> event, effect |-> effect]
    /\ effect' = EffectNew
    /\ event' = NoEvent
    /\ ops' = 0
    /\ limit' = Decremented(limit)
    /\ pc' = "loop"
    /\ UNCHANGED <<ret, clock, pre, served>>

\* the end of a cycle of the loop
Commit == Committed /\ UNCHANGED hist

\* the end of a cycle of the loop, with the history of replacements recorded
CommitMarked ==
    /\ Committed
    /\ hist' = [hist EXCEPT
                    !.heirs = IF Failed(effect) THEN @ ELSE Inherited(@, events, target, effect),
                    !.updates = <<>>]

Next ==
    \/ \E b \in (IF heap = <<>> THEN FirstBootBehaviors ELSE BootBehaviors) : Boot(b)
    \/ \E l \in Limits : Dispatch(l)
    \/ LoopPop
    \/ LoopExit
    \/ React
    \/ \E b \in CreateBehaviors : ClientCreate(b)
    \/ \E t \in Known, m \in SendMessages : ClientSend(t, m)
    \/ \E b \in UpdateBehaviors : ClientUpdate(b)
    \/ ClientThrow
    \/ ClientReturn
    \/ Commit

Spec == Init /\ [][Next]_vars

\* the steps of a call in progress are taken: the caller's thread runs, and
\* a reaction returns (a Behavior does not block)
FairSpec == Spec /\ WF_vars(LoopPop \/ LoopExit \/ React \/ ClientReturn \/ Commit)

\* the same program with the history variable hist recorded
NextMarked ==
    \/ \E b \in (IF heap = <<>> THEN FirstBootBehaviors ELSE BootBehaviors) : Boot(b)
    \/ \E l \in Limits : Dispatch(l)
    \/ LoopPopMarked
    \/ LoopExit
    \/ React
    \/ \E b \in CreateBehaviors : ClientCreate(b)
    \/ \E t \in Known, m \in SendMessages : ClientSend(t, m)
    \/ \E b \in UpdateBehaviors : ClientUpdateMarked(b)
    \/ ClientThrow
    \/ ClientReturn
    \/ CommitMarked

MarkedSpec == Init /\ [][NextMarked]_vars

\* ------------------------------------------------------------ properties
Stamps(q) == {q[i].stamp : i \in 1..Len(q)}
InOrder(q) == \A i, j \in 1..Len(q) : i < j => q[i].stamp < q[j].stamp

\* an event has been handled (its effect committed or discarded) and no
\* later event has been popped yet
Handled == pc \in {"loop", "idle"} /\ last # NoLast

\* C1: once the scheduler has handled an event whose reaction flagged a
\* failure, the registry is the one of the moment the event was popped, the
\* queue is the queue of that moment without its front event, the target has
\* the behaviour it had, and no actor and no event staged by the reaction
\* appears in the registry or the queue.
C1_FailureIsAtomic ==
    (Handled /\ last.effect.error # None) =>
        /\ actors = pre.actors
        /\ events = Tail(pre.events)
        /\ heap[last.event.target] = pre.behavior
        /\ Range(last.effect.actors) \cap Range(actors) = {}
        /\ Stamps(last.effect.events) \cap Stamps(events) = {}

\* a failed reaction that had staged a send was handled while another event
\* was waiting
C1_Witness ==
    /\ Handled
    /\ last.effect.error # None
    /\ last.effect.events # <<>>
    /\ events # <<>>

\* C2: the queue is always in the order of the send calls, every event
\* still queued was sent after every event popped so far, and the events a
\* reaction in progress has staged come, in send order, after every event
\* already queued: events are dispatched in the order they entered the
\* queue.  An event is popped only once the effect of the event popped
\* before it has been committed or discarded.
C2_Fifo ==
    /\ [](InOrder(events))
    /\ [](\A n \in served : \A m \in Stamps(events) : n < m)
    /\ [](InOrder(effect.events))
    /\ [](\A n \in Stamps(events) : \A m \in Stamps(effect.events) : n < m)
    /\ [][event' \notin {event, NoEvent}
            => (event = NoEvent /\ effect = EffectNew /\ event' = Head(events))]_vars

\* a reaction's staged events were appended behind an event that was already
\* waiting, and that older event has been popped since
C2_Witness ==
    /\ pc = "react"
    /\ events # <<>>
    /\ \E m \in Stamps(events) : event.stamp < m /\ \E n \in served : n < event.stamp /\ m < clock

\* C3: once the scheduler has handled an event whose reaction flagged no
\* failure, the registry is the prior registry followed by the staged actors,
\* the queue is the prior queue without its front event followed by the
\* staged events, and the target's behaviour is the staged replacement if
\* there is one and the prior behaviour otherwise.
C3_SuccessCommits ==
    (Handled /\ last.effect.error = None) =>
        /\ actors = pre.actors \o last.effect.actors
        /\ events = Tail(pre.events) \o last.effect.events
        /\ heap[last.event.target] =
                IF last.effect.state # None THEN last.effect.state[1] ELSE pre.behavior

\* a successful reaction that staged a replacement and a send was committed
C3_Witness ==
    /\ Handled
    /\ last.effect.error = None
    /\ last.effect.state # None
    /\ last.effect.state[1] # pre.behavior
    /\ last.effect.events # <<>>
\* a boot or dispatch call has returned
Returned == pc = "idle" /\ call.op # "none"

\* C4: a call of dispatch (by the caller with any limit, or by boot with
\* limit 1) terminates; it never runs more reactions than its limit, failing
\* ones included; when it returns having run fewer, the queue is empty; and
\* it returns the number of events then in the queue.
C4_BoundedQuantum ==
    /\ [](call.ran <= call.limit)
    /\ [](pc \in {"react", "commit"} => call.ran < call.limit)
    /\ [](Returned => (call.ran < call.limit => events = <<>>))
    /\ [](Returned => ret = Len(events))
    /\ ((pc # "idle") ~> (pc = "idle"))

\* dispatch(2) has returned after two reactions, one of them failing and one
\* staging a send, with an event still waiting
C4_Witness ==
    /\ Returned
    /\ call.op = "dispatch"
    /\ call.limit = 2
    /\ call.ran = 2
    /\ call.sent > 0
    /\ last.effect.error # None
    /\ ret > 0

\* C5: dispatch(0) runs no reaction, leaves the registry, the queue and
\* every actor's behaviour as they were at the call, and returns the queue
\* length.
C5_DispatchZeroIsNoOp ==
    (call.op = "dispatch" /\ call.limit = 0) =>
        /\ pc \in {"loop", "idle"}
        /\ call.ran = 0
        /\ actors = call.actors
        /\ events = call.events
        /\ heap = call.heap
        /\ (pc = "idle" => ret = Len(call.events))

\* dispatch(0) has returned while events were waiting
C5_Witness ==
    /\ Returned
    /\ call.op = "dispatch"
    /\ call.limit = 0
    /\ events # <<>>
\* C6 as stated: a dispatch whose limit exceeds the queue length at the call
\* leaves the queue empty and returns 0.
C6_LimitAboveLengthDrains ==
    (Returned /\ call.op = "dispatch" /\ call.limit > Len(call.events)) =>
        (events = <<>> /\ ret = 0)

\* C6: a dispatch whose limit exceeds the queue length at the call leaves the
\* queue empty and returns 0 exactly when the limit is at least that length
\* plus the number of events committed by the reactions run during the call;
\* in every case it returns that sum minus the number of reactions run.
C6_DrainsUnlessRefilled ==
    (Returned /\ call.op = "dispatch" /\ call.limit > Len(call.events)) =>
        /\ (events = <<>> /\ ret = 0) <=> (call.limit >= Len(call.events) + call.sent)
        /\ ret = Len(call.events) + call.sent - call.ran

\* a dispatch with a limit above the queue length has drained a queue that a
\* reaction had refilled during the call
C6_Witness ==
    /\ Returned
    /\ call.op = "dispatch"
    /\ call.limit > Len(call.events)
    /\ call.events # <<>>
    /\ call.sent > 0
    /\ ret = 0

\* C7: a boot called with an empty queue creates a fresh root with the given
\* behaviour, appends it to the registry, enqueues the one event
\* (root, Empty), runs exactly one reaction, on that event, and returns the
\* queue length: if the reaction succeeds, the number of events it staged,
\* the registry being the prior one, the root and the staged actors; if it
\* fails, 0, the registry being the prior one and the root.
C7_BootOnEmptyQueue ==
    (Returned /\ call.op = "boot" /\ call.events = <<>>) =>
        /\ call.root \notin Range(call.actors)
        /\ call.root > Len(call.heap)
        /\ pre.actors = Append(call.actors, call.root)
        /\ pre.behavior = call.behavior
        /\ pre.events = <<Event(call.root, Empty, call.stamp)>>
        /\ call.ran = 1
        /\ last.event = Event(call.root, Empty, call.stamp)
        /\ ret = Len(events)
        /\ IF last.effect.error = None
           THEN /\ ret = Len(last.effect.events)
                /\ actors = Append(call.actors, call.root) \o last.effect.actors
           ELSE /\ ret = 0
                /\ actors = Append(call.actors, call.root)

\* a boot on an empty queue has returned 2: the root's reaction staged two sends
C7_Witness ==
    /\ Returned
    /\ call.op = "boot"
    /\ call.events = <<>>
    /\ last.effect.error = None
    /\ ret = 2

\* C8: when a boot returns, the root's bootstrap event has been dispatched to
\* the root and its reaction has been handled.
C8_BootDrivesRoot ==
    (Returned /\ call.op = "boot") =>
        /\ call.stamp \in served
        /\ last.event = Event(call.root, Empty, call.stamp)

\* C9: the event of a failed reaction is not put back in the queue; no event
\* is popped twice; and after a failed reaction the call pops the next queued
\* event if it has run fewer reactions than its limit.
C9_FailureNeitherHaltsNorRetries ==
    /\ []((Handled /\ last.effect.error # None) => last.event.stamp \notin Stamps(events))
    /\ [][(pc = "loop" /\ pc' = "react") => event'.stamp \notin served]_vars
    /\ [][(pc = "loop" /\ last # NoLast /\ last.effect.error # None
            /\ call.ran < call.limit /\ events # <<>>)
          => (pc' = "react" /\ event' = Head(events))]_vars

\* within one dispatch call a reaction failed and the next event was handled
C9_Witness ==
    /\ Returned
    /\ call.op = "dispatch"
    /\ call.ran = 2
    /\ call.failed = 1
    /\ last.effect.error = None

\* C10: the registry only grows, by appending; an actor made by
\* Effect::create is in the registry exactly if the reaction that made it was
\* committed, and the actors of the reaction in progress are the staged ones.
C10_RegistryAppendOnly ==
    /\ [][Len(actors') >= Len(actors) /\ SubSeq(actors', 1, Len(actors)) = actors]_vars
    /\ [](\A a \in 1..Len(heap) :
            fate[a] # "root" => (a \in Range(actors) <=> fate[a] = "committed"))
    /\ [](\A a \in 1..Len(heap) : fate[a] = "staged" <=> a \in Range(effect.actors))

\* an actor staged by a failed reaction exists, outside the registry, and a
\* later reaction has been committed
C10_Witness ==
    /\ \E a \in 1..Len(heap) : fate[a] = "discarded" /\ a \notin Range(actors)
    /\ Handled
    /\ last.effect.error = None

\* what a commit that installs a replacement leaves alone: no actor appears or
\* disappears besides the ones the effect created, the target's cell holds the
\* replacement, the events that were waiting are still in the queue with the
\* targets and messages they had, the registry still starts with the actors
\* it had, and the cells of the other actors are as they were
IdentityKept ==
    (Handled /\ last.effect.error = None /\ last.effect.state # None) =>
        /\ Len(heap) = Len(pre.heap) + Len(last.effect.actors)
        /\ heap[last.event.target] = last.effect.state[1]
        /\ SubSeq(events, 1, Len(pre.events) - 1) = Tail(pre.events)
        /\ SubSeq(actors, 1, Len(pre.actors)) = pre.actors
        /\ \A a \in 1..Len(pre.heap) : a # last.event.target => heap[a] = pre.heap[a]

\* C11 as stated: a commit that installs a replacement keeps the actor's
\* identity, and every event dispatched to the actor afterwards is reacted to
\* by that replacement (here: every event that was waiting for the actor at
\* such a commit, or was sent to it by the committed effect).
C11_ReplacementGovernsAllLater ==
    /\ IdentityKept
    /\ pc \in {"react", "commit"} => \A m \in pre.heirs : pre.behavior = m.behavior

\* C11: a commit that installs a replacement keeps the actor's identity, and
\* every event dispatched to the actor afterwards is reacted to by the
\* behaviour the actor was given last: that replacement, until a later commit
\* replaces it in turn.
C11_ReplacementKeepsIdentity ==
    /\ IdentityKept
    /\ pc \in {"react", "commit"} =>
            /\ pre.behavior = life[target].given
            /\ pre.heirs # {} => \E m \in pre.heirs : pre.behavior = m.behavior

\* an event is being reacted to that waited in the queue while its target was
\* given a replacement, and then another one
C11_Witness ==
    /\ pc = "react"
    /\ \E m, n \in pre.heirs : m.behavior # n.behavior /\ ~n.self /\ pre.behavior = n.behavior

\* C12: an actor made with the behaviour Once (send each message to a fixed
\* customer, then become Sink) reacts to the first event popped for it by
\* staging exactly one send, of that event's message to the customer, and the
\* replacement Sink; to every later event it reacts by staging no create, no
\* send and no failure.
C12_OneShot ==
    (Handled /\ life[last.event.target].born.kind = "Once") =>
        /\ last.effect.actors = <<>>
        /\ last.effect.error = None
        /\ IF pre.popped = 0
           THEN /\ Len(last.effect.events) = 1
                /\ last.effect.events[1].target = life[last.event.target].born.cust
                /\ last.effect.events[1].message = last.event.message
                /\ last.effect.state = Some(Sink)
                /\ heap[last.event.target] = Sink
           ELSE last.effect.events = <<>>

\* the third event sent to a Once actor has been handled, and the only event
\* waiting is the one it forwarded to its customer
C12_Witness ==
    /\ Handled
    /\ life[last.event.target].born.kind = "Once"
    /\ pre.popped = 2
    /\ Len(events) = 1
    /\ events[1].target = life[last.event.target].born.cust
    /\ events[1].message = Str("first")

\* C13: once an event popped for an actor whose behaviour is Sink has been
\* handled, the effect is the empty one (no create, no send, no replacement,
\* no failure), the queue is the prior queue without that event, and the
\* registry and every behaviour are as before.  A boot, on an empty queue,
\* of a root that creates one Sink and sends it two Empty messages returns 2;
\* a dispatch called when every queued event is for a Sink, with a limit of
\* at least the queue length, returns 0 with the queue empty and the registry
\* and the behaviours unchanged: so dispatch(2) after that boot returns 0.
C13_SinkAbsorbs ==
    /\ (Handled /\ pre.behavior.kind = "Sink") =>
            /\ last.effect = EffectNew
            /\ events = Tail(pre.events)
            /\ Len(events) = Len(pre.events) - 1
            /\ actors = pre.actors
            /\ heap = pre.heap
    /\ (Returned /\ call.op = "boot" /\ call.behavior = BootSink /\ call.events = <<>>) =>
            /\ ret = 2
            /\ heap[Len(heap)] = Sink
            /\ \A i \in 1..2 : events[i].target = Len(heap) /\ events[i].message = Empty
    /\ (Returned /\ call.op = "dispatch" /\ call.limit >= Len(call.events)
            /\ \A i \in 1..Len(call.events) : call.heap[call.events[i].target].kind = "Sink") =>
            /\ ret = 0
            /\ events = <<>>
            /\ actors = call.actors
            /\ heap = call.heap

\* after the boot of the root that creates one Sink and sends it two Empty
\* messages, dispatch(2) has run two reactions and returned 0
C13_Witness ==
    /\ Returned
    /\ call.op = "dispatch"
    /\ call.limit = 2
    /\ call.heap = <<BootSink, Sink>>
    /\ Len(call.events) = 2
    /\ call.ran = 2
    /\ ret = 0

\* C14: once an event popped for an actor whose behaviour is Forward has been
\* handled, the effect is without failure, create and replacement and holds
\* exactly one event, for the subject, with the message of the popped event;
\* that event is at the back of the queue and the events it follows are the
\* ones that were waiting, so the events forwarded come in the order of the
\* events received.  A boot, on an empty queue, of a root that creates a Sink
\* and a Forward to it and sends the forwarder a message M, the forwarder
\* Empty and the Sink Empty returns 3; dispatch(3) then returns 2, the queue
\* holding (Sink, M) followed by (Sink, Empty).
C14_ForwardProxies ==
    /\ (Handled /\ pre.behavior.kind = "Forward") =>
            /\ last.effect.error = None
            /\ last.effect.actors = <<>>
            /\ last.effect.state = None
            /\ Len(last.effect.events) = 1
            /\ last.effect.events[1].target = pre.behavior.subject
            /\ last.effect.events[1].message = last.event.message
            /\ events = Append(Tail(pre.events), last.effect.events[1])
            /\ heap = pre.heap
    /\ (Returned /\ call.op = "boot" /\ call.behavior.kind = "BootForward"
            /\ call.events = <<>>) =>
            ret = 3
    /\ (Returned /\ call.op = "dispatch" /\ call.limit = 3 /\ Len(call.events) = 3
            /\ call.heap = <<BootForward(call.events[1].message), Sink, Forward(2)>>
            /\ <<call.events[1].target, call.events[2].target, call.events[3].target>>
                    = <<3, 3, 2>>) =>
            /\ ret = 2
            /\ Len(events) = 2
            /\ \A i \in 1..2 : events[i].target = 2 /\ events[i].message = call.events[i].message
            /\ events[1].stamp < events[2].stamp

\* after the boot of the forwarder scenario with the message "World",
\* dispatch(3) has returned 2
C14_Witness ==
    /\ Returned
    /\ call.op = "dispatch"
    /\ call.limit = 3
    /\ call.heap = <<BootForward(Str("World")), Sink, Forward(2)>>
    /\ Len(call.events) = 3
    /\ <<call.events[1].target, call.events[2].target, call.events[3].target>> = <<3, 3, 2>>
    /\ events[1].message = Str("World")
    /\ events[2].message = Empty
    /\ ret = 2

\* C15: once an event popped for an actor whose behaviour is Label has been
\* handled, the effect is without failure, create and replacement and holds
\* exactly one event, for the customer, with the message Pair(label, M), M
\* being the message of the popped event.  In the scenario of a root that
\* creates a customer and a Label to it with the label "Hello" and sends the
\* Label a message M, the boot returns 1; every event popped for the customer
\* is the one event sent by the Label, its message is Pair("Hello", M) and the
\* queue is empty when it is popped; dispatch(2) after the boot returns 0, the
\* event handled last being that one.
C15_LabelDecorates ==
    /\ (Handled /\ pre.behavior.kind = "Label") =>
            /\ last.effect.error = None
            /\ last.effect.actors = <<>>
            /\ last.effect.state = None
            /\ Len(last.effect.events) = 1
            /\ last.effect.events[1].target = pre.behavior.cust
            /\ last.effect.events[1].message = Pair(pre.behavior.label, last.event.message)
            /\ heap = pre.heap
    /\ (Returned /\ call.op = "boot" /\ call.behavior.kind = "BootLabel"
            /\ call.events = <<>>) =>
            ret = 1
    /\ (pc = "react" /\ heap[1].kind = "BootLabel" /\ pre.behavior = MockCust) =>
            /\ event = Event(2, Pair(Str("Hello"), heap[1].message), 3)
            /\ events = <<>>
    /\ (Returned /\ call.op = "dispatch" /\ call.limit = 2 /\ Len(call.events) = 1
            /\ call.heap = <<BootLabel(call.events[1].message), MockCust, Label(2, Str("Hello"))>>
            /\ call.events[1].target = 3) =>
            /\ ret = 0
            /\ events = <<>>
            /\ last.event = Event(2, Pair(Str("Hello"), call.events[1].message), 3)
            /\ last.effect = EffectNew

\* in the scenario with the message "World", dispatch(2) has returned 0 after
\* the customer was delivered Pair("Hello", "World")
C15_Witness ==
    /\ Returned
    /\ call.op = "dispatch"
    /\ call.limit = 2
    /\ call.heap = <<BootLabel(Str("World")), MockCust, Label(2, Str("Hello"))>>
    /\ last.event.target = 2
    /\ last.event.message = Pair(Str("Hello"), Str("World"))
    /\ ret = 0

\* C16: once an event popped for an actor T whose behaviour is Tag has been
\* handled, the effect is without failure, create and replacement and holds
\* exactly one event, for the customer, with the message Pair(Addr(T), M), M
\* being the message of the popped event and T its target.  In the scenario
\* of a root that creates a customer and a Tag to it and sends the Tag a
\* message M, the boot returns 1; every event popped for the customer is the
\* one event sent by the Tag and its message is Pair(Addr(the Tag), M);
\* dispatch(2) after the boot returns 0.
C16_TagDecorates ==
    /\ (Handled /\ pre.behavior.kind = "Tag") =>
            /\ last.effect.error = None
            /\ last.effect.actors = <<>>
            /\ last.effect.state = None
            /\ Len(last.effect.events) = 1
            /\ last.effect.events[1].target = pre.behavior.cust
            /\ last.effect.events[1].message = Pair(Addr(last.event.target), last.event.message)
            /\ last.effect.events[1].message.fst.addr # pre.behavior.cust
            /\ heap = pre.heap
    /\ (Returned /\ call.op = "boot" /\ call.behavior.kind = "BootTag" /\ call.events = <<>>) =>
            ret = 1
    /\ (pc = "react" /\ heap[1].kind = "BootTag" /\ pre.behavior = MockCust) =>
            /\ event = Event(2, Pair(Addr(3), heap[1].message), 3)
            /\ heap[3] = Tag(2)
            /\ events = <<>>
    /\ (Returned /\ call.op = "dispatch" /\ call.limit = 2 /\ Len(call.events) = 1
            /\ call.heap = <<BootTag(call.events[1].message), MockCust, Tag(2)>>
            /\ call.events[1].target = 3) =>
            /\ ret = 0
            /\ events = <<>>
            /\ last.event = Event(2, Pair(Addr(3), call.events[1].message), 3)
            /\ last.effect = EffectNew

\* in the scenario with the message "It's Me!", dispatch(2) has returned 0
\* after the customer was delivered the pair of the Tag's address and the
\* message
C16_Witness ==
    /\ Returned
    /\ call.op = "dispatch"
    /\ call.limit = 2
    /\ call.heap = <<BootTag(Str("It's Me!")), MockCust, Tag(2)>>
    /\ last.event.target = 2
    /\ last.event.message = Pair(Addr(3), Str("It's Me!"))
    /\ ret = 0

\* C17: an event is in the hands of dispatch exactly from its pop to the
\* commit or discard of its effect, and an event is popped only when none is;
\* from the pop to the step that commits or discards the effect, the
\* registry, the queue, the event in hand, the set of events popped and the
\* behaviour of every existing actor stay as they are (only the effect in
\* progress changes, and actors it creates appear); the commit or discard
\* itself pops nothing.
C17_NoReentrancy ==
    /\ [](event # NoEvent <=> pc \in {"react", "commit"})
    /\ [][event' \notin {event, NoEvent} => (event = NoEvent /\ pc = "loop" /\ pc' = "react")]_vars
    /\ [][served' # served => (event = NoEvent /\ pc = "loop" /\ pc' = "react")]_vars
    /\ [][pc = "react" =>
            /\ actors' = actors
            /\ events' = events
            /\ event' = event
            /\ served' = served
            /\ Len(heap') >= Len(heap)
            /\ \A a \in 1..Len(heap) : heap'[a] = heap[a]]_vars
    /\ [][pc = "commit" => (pc' = "loop" /\ event' = NoEvent /\ served' = served)]_vars

\* a reaction has staged a send to its own actor and a replacement while another event for the same actor waits in the queue
C17_Witness ==
    /\ pc = "commit"
    /\ effect.state # None
    /\ \E i \in 1..Len(effect.events) : effect.events[i].target = target
    /\ \E i \in 1..Len(events) : events[i].target = target

\* C18: the commit of an effect without failure, built by a reaction that
\* called update at least once, finds in the effect the behaviour passed to
\* the last update call and leaves it as the target's behaviour; until that
\* commit the target keeps the behaviour it had when the event was popped,
\* so no behaviour passed to an earlier call is installed at any time.
C18_LastUpdateWins ==
    /\ [][(pc = "commit" /\ effect.error = None /\ hist.updates # <<>>) =>
            /\ effect.state = Some(hist.updates[Len(hist.updates)])
            /\ heap'[target] = hist.updates[Len(hist.updates)]
            /\ life'[target].given = hist.updates[Len(hist.updates)]]_vars
    /\ [](pc \in {"react", "commit"} => heap[target] = pre.behavior)

\* a reaction that called update twice, with different behaviours, the last
\* one not being the target's own, is about to be committed
C18_Witness ==
    /\ pc = "commit"
    /\ effect.error = None
    /\ Len(hist.updates) >= 2
    /\ hist.updates[1] # hist.updates[Len(hist.updates)]
    /\ hist.updates[Len(hist.updates)] # heap[target]

\* C19: once an event has been handled, every actor that existed when it was
\* popped, other than its target, has the behaviour it had then (a dropped
\* actor stays dropped); the actors made since are the ones the reaction
\* created, and they have the behaviour they were created with if the
\* reaction succeeded and are dropped with the effect if it failed; after a
\* failure the target too has the behaviour it had.
C19_Frame ==
    Handled =>
        /\ \A a \in 1..Len(pre.heap) : a # last.event.target => heap[a] = pre.heap[a]
        /\ Range(last.effect.actors) = (Len(pre.heap) + 1)..Len(heap)
        /\ \A a \in Range(last.effect.actors) :
                heap[a] = IF last.effect.error = None THEN life[a].born ELSE Freed
        /\ last.effect.error # None => heap[last.event.target] = pre.heap[last.event.target]

\* a reaction of an actor other than the first has replaced its behaviour
\* by a different one
C19_Witness ==
    /\ Handled
    /\ last.effect.error = None
    /\ last.effect.state # None
    /\ last.event.target # 1
    /\ heap[last.event.target] # pre.behavior
    /\ heap[last.event.target] # heap[1]

\* the event in the hands of dispatch was sent to its own actor by a committed
\* reaction that also staged a replacement
SelfSent == pc \in {"react", "commit"} /\ \E m \in pre.heirs : m.self

\* C20 as stated: an event that a committed reaction sent to its own actor
\* while staging a replacement is reacted to by that replacement, and so is
\* every event for the actor that was waiting at that commit.
C20_OwnSendsGetTheReplacement ==
    /\ SelfSent => \A m \in pre.heirs : m.self => pre.behavior = m.behavior
    /\ (Handled /\ last.effect.error = None /\ last.effect.state # None) =>
            heap[last.event.target] = last.effect.state[1]

\* C20: when a reaction that staged a replacement and sent events to its own
\* actor has been committed, the actor has the replacement and those events
\* are behind the events that were waiting; each of them, and each event for
\* the actor that was waiting, is reacted to by the behaviour the actor was
\* given last when the event is popped: that replacement, or the one staged
\* since by a reaction of the actor to an event dispatched in between.
C20_OwnSendsGetTheLatest ==
    /\ SelfSent =>
            /\ pre.behavior = life[target].given
            /\ \E m \in pre.heirs : pre.behavior = m.behavior
    /\ (Handled /\ last.effect.error = None /\ last.effect.state # None) =>
            /\ heap[last.event.target] = last.effect.state[1]
            /\ events = Tail(pre.events) \o last.effect.events
            /\ \A i \in 1..Len(events) :
                    events[i].target = last.event.target =>
                        \E m \in hist.heirs :
                            /\ m.stamp = events[i].stamp
                            /\ m.behavior = heap[last.event.target]
                            /\ m.self <=> events[i].stamp \in Stamps(last.effect.events)

\* an event that a reaction sent to its own actor while staging a replacement
\* is being reacted to by that replacement, which is not the behaviour the
\* actor was made with
C20_Witness ==
    /\ pc = "react"
    /\ \E m \in pre.heirs : m.self /\ pre.behavior = m.behavior
    /\ pre.behavior # life[target].born

\* the caller calls dispatch with a positive limit
DispatchPositive == \E l \in Limits \ {0} : Dispatch(l)

\* a step leaves every waiting event where it is, new events going behind
Waits == Len(events') >= Len(events) /\ SubSeq(events', 1, Len(events)) = events

\* a step pops the front event, not popped before, and enters
\* target.dispatch(event) with it; every other waiting event moves up one
\* place
Pops ==
    /\ events # <<>>
    /\ events' = Tail(events)
    /\ event' = Head(events)
    /\ pc' = "react"
    /\ Head(events).stamp \notin served
    /\ served' = served \cup {Head(events).stamp}

====
